---- MODULE Spec2Model ----
(***************************************************************************)
(* Model of src/app.py, the Streamlit "Research Paper Q&A Assistant".      *)
(*                                                                         *)
(* Text is modelled at two grains.  Document text (PDF text, chunks) is a  *)
(* sequence of one-character strings, so that str.strip(), str.split()    *)
(* and " ".join() are computed character by character.  Model replies     *)
(* (the raw response handed to format_response) are sequences of lines,   *)
(* a line being a sequence of tokens; a token is an indivisible piece of  *)
(* text (a label name, an ordinal "1.", a word, a run of blanks).         *)
(*                                                                         *)
(* Three specifications:                                                   *)
(*   Spec        the session: one action per script run (button click)    *)
(*   SpecSplit   split_text applied to bounded texts, windows, overlaps   *)
(*   SpecFormat  format_response's line scan over bounded replies         *)
(***************************************************************************)
EXTENDS Integers, Sequences, FiniteSets, TLC

VARIABLES
    \* st.session_state (app.py 17-23)
    chunks, processed, model_ready,
    \* what the last script run did: the widget that triggered it, the
    \* messages it showed, the query_ollama invocation it made (if any)
    action, upload, messages, query, formatted,
    \* the split_text call of SpecSplit: its arguments and the list returned
    sp_pc, sp_text, sp_chunk_size, sp_overlap, sp_result,
    \* the format_response call of SpecFormat; what the raw text read so far is: whether it starts with an error prefix,
    \* is blank, which label names and ordinals its lines show, its line count
    fr_pc, fr_error, fr_blank, fr_present, fr_numbered, fr_nlines,
    \* the scanner's variables and the value returned
    current_section, sections, fr_out

sessionVars ==
    <<chunks, processed, model_ready, action, upload, messages, query, formatted>>
splitVars == <<sp_pc, sp_text, sp_chunk_size, sp_overlap, sp_result>>
formatVars == <<fr_pc, fr_error, fr_blank, fr_present, fr_numbered, fr_nlines,
                current_section, sections, fr_out>>
vars == <<sessionVars, splitVars, formatVars>>

----------------------------------------------------------------------------
(* Bounds of the model *)

\* longest text given to split_text in SpecSplit
MaxLen == 7
\* largest window size given to split_text in SpecSplit
MaxWindow == 3
\* most lines of a reply scanned by format_response in SpecFormat
MaxLines == 5
\* most pages of an uploaded PDF in Spec
MaxPages == 1

----------------------------------------------------------------------------
(* Character-level strings *)

Min(a, b) == IF a < b THEN a ELSE b

\* str.isspace() for one character
IsSpace(c) == c \in {" ", "\n", "\t"}

\* s * n for a string s: s repeated n times
Rep(s, n) == [i \in 1..(n * Len(s)) |-> s[((i - 1) % Len(s)) + 1]]

\* Python slice seq[i:j] for 0 <= i, 0-based, clipped to the sequence
Slice(seq, i, j) == SubSeq(seq, i + 1, Min(j, Len(seq)))

\* the positions of s, in order
Positions(s) == [i \in 1..Len(s) |-> i]

\* str.strip(): leading and trailing whitespace removed
Strip(s) ==
    LET Inked(i) == ~IsSpace(s[i])
        ink == SelectSeq(Positions(s), Inked)
    IN  IF ink = <<>> THEN <<>> ELSE SubSeq(s, ink[1], ink[Len(ink)])

\* str.split(" ") keeps the empty fields between single blanks
SplitOnSpace(s) ==
    LET IsSep(i) == s[i] = " "
        sep == SelectSeq(Positions(s), IsSep)
    IN  [k \in 1..(Len(sep) + 1) |->
            SubSeq(s, IF k = 1 THEN 1 ELSE sep[k - 1] + 1,
                      IF k = Len(sep) + 1 THEN Len(s) ELSE sep[k] - 1)]

\* str.split(): the maximal runs of non-whitespace characters, in order
SplitWords(s) ==
    LET IsStart(i) == ~IsSpace(s[i]) /\ (i = 1 \/ IsSpace(s[i - 1]))
        IsEnd(i) == ~IsSpace(s[i]) /\ (i = Len(s) \/ IsSpace(s[i + 1]))
        starts == SelectSeq(Positions(s), IsStart)
        ends == SelectSeq(Positions(s), IsEnd)
    IN  [k \in 1..Len(starts) |-> SubSeq(s, starts[k], ends[k])]
Split(s) == SplitWords(s)

\* " ".join(words)
RECURSIVE Join(_)
Join(words) ==
    IF words = <<>> THEN <<>>
    ELSE IF Len(words) = 1 THEN words[1]
    ELSE words[1] \o <<" ">> \o Join(Tail(words))

----------------------------------------------------------------------------
(* split_text (app.py 82-98) *)

\* the loop with the step forgetting the overlap: i += chunk_size
RECURSIVE SplitLoopNoOverlap(_, _, _, _, _)
SplitLoopNoOverlap(words, chunk_size, overlap, i, acc) ==
    IF i < Len(words)
    THEN LET chunk == Join(Slice(words, i, i + chunk_size))
             out == Append(acc, chunk)
             j == i + chunk_size
         IN  IF j >= Len(words) THEN out
             ELSE SplitLoopNoOverlap(words, chunk_size, overlap, j, out)
    ELSE acc

\* the while loop of lines 92-97, entered with index i and the chunks so far
RECURSIVE SplitLoopFrom(_, _, _, _, _)
SplitLoopFrom(words, chunk_size, overlap, i, acc) ==
    IF i < Len(words)
    THEN LET chunk == Join(Slice(words, i, i + chunk_size))
             out == Append(acc, chunk)
             j == i + chunk_size - overlap
         IN  IF j >= Len(words) THEN out
             ELSE SplitLoopFrom(words, chunk_size, overlap, j, out)
    ELSE acc

SplitLoop(words, chunk_size, overlap, i, acc) ==
    SplitLoopFrom(words, chunk_size, overlap, i, acc)

split_text(text, chunk_size, overlap) ==
    IF text = <<>> THEN <<>>
    ELSE LET words == Split(text)
         IN  IF words = <<>> THEN <<>>
             ELSE SplitLoop(words, chunk_size, overlap, 0, <<>>)

----------------------------------------------------------------------------
(* format_response (app.py 131-183) *)

\* the keys of the sections dict, in insertion order (lines 138-144)
Labels == <<"KEY CONCEPT", "MATHEMATICAL FORMULATION", "MATHEMATICAL INTUITION",
            "PRACTICAL IMPLICATIONS", "SUMMARY">>
LabelSet == {Labels[k] : k \in 1..Len(Labels)}
\* the ordinal prefixes tested by line.startswith (lines 156-164)
Ordinals == <<"1.", "2.", "3.", "4.", "5.">>
\* current_section = None
None == "None"
\* the text shown for a section without content (line 181)
Placeholder == <<"*Information not specified in response*">>
\* the prefixes of line 134
ErrorPrefixes == {"Error:", "API Error:"}

\* str.upper() of a token: lower-case spellings of the label names become the
\* label names; the other tokens of the model do not change what is matched
Upper(tok) ==
    CASE tok = "key concept" -> "KEY CONCEPT"
      [] tok = "summary" -> "SUMMARY"
      [] tok = "x" -> "X"
      [] OTHER -> tok
UpperLine(line) == [i \in 1..Len(line) |-> Upper(line[i])]

\* tok.startswith(prefix) for the tokens of the model: "1.5" starts with "1."
TokStartsWith(tok, prefix) == tok = prefix \/ (tok = "1.5" /\ prefix = "1.")

\* `label in line`: a token of the line is the label
Contains(line, label) == \E i \in 1..Len(line) : line[i] = label
\* line.startswith(prefix)
StartsWith(line, prefix) == line # <<>> /\ TokStartsWith(line[1], prefix)

\* line.strip() on a line of tokens: the blank runs at both ends go
RECURSIVE LStripLine(_)
LStripLine(line) ==
    IF line # <<>> /\ Head(line) = " " THEN LStripLine(Tail(line)) ELSE line
RECURSIVE RStripLine(_)
RStripLine(line) ==
    IF line # <<>> /\ line[Len(line)] = " "
    THEN RStripLine(SubSeq(line, 1, Len(line) - 1)) ELSE line
StripLine(line) == RStripLine(LStripLine(line))

\* raw.startswith("Error:") or raw.startswith("API Error:") (line 134); raw is
\* its lines, raw.split('\n'), never an empty sequence: "" is one empty line
HasErrorPrefix(raw) == \E p \in ErrorPrefixes : StartsWith(raw[1], p)

\* bool(raw.strip()) (line 180): some token of some line is not blank
LineIsBlank(line) == \A i \in 1..Len(line) : line[i] = " "
RawIsBlank(raw) == \A k \in 1..Len(raw) : LineIsBlank(raw[k])

\* the if/elif chain of lines 155-165: the section a stripped line opens, or None
HeaderOf(line) ==
    LET line_upper == UpperLine(line)
    IN  IF Contains(line_upper, Labels[1]) \/ StartsWith(line, Ordinals[1]) THEN Labels[1]
        ELSE IF Contains(line_upper, Labels[2]) \/ StartsWith(line, Ordinals[2]) THEN Labels[2]
        ELSE IF Contains(line_upper, Labels[3]) \/ StartsWith(line, Ordinals[3]) THEN Labels[3]
        ELSE IF Contains(line_upper, Labels[4]) \/ StartsWith(line, Ordinals[4]) THEN Labels[4]
        ELSE IF Contains(line_upper, Labels[5]) \/ StartsWith(line, Ordinals[5]) THEN Labels[5]
        ELSE None

\* the scanner starting inside the first section instead of current_section = None
ScanInitFirst ==
    [current_section |-> Labels[1], sections |-> [l \in LabelSet |-> <<>>]]

\* the scanner's variables before the loop (lines 138-146)
ScanInit == [current_section |-> None, sections |-> [l \in LabelSet |-> <<>>]]

\* one iteration of the for loop (lines 149-171)
ScanLine(st, rawline) ==
    LET line == StripLine(rawline)
    IN  IF line = <<>> THEN st
        ELSE IF HeaderOf(line) # None
             THEN [st EXCEPT !.current_section = HeaderOf(line)]
        ELSE IF st.current_section # None
             THEN [st EXCEPT !.sections[st.current_section] =
                                 IF @ # <<>> THEN @ \o <<" ">> \o line ELSE line]
        ELSE st

RECURSIVE ScanLines(_, _)
ScanLines(st, lines) ==
    IF lines = <<>> THEN st ELSE ScanLines(ScanLine(st, Head(lines)), Tail(lines))

\* the output loop (lines 174-181) from the k-th label on: one entry per section
\* shown, in the order of the dict
RECURSIVE Render(_, _, _)
Render(secs, raw_nonblank, k) ==
    IF k > Len(Labels) THEN <<>>
    ELSE LET content == secs[Labels[k]]
             entry == IF StripLine(content) # <<>>
                      THEN <<[section |-> Labels[k], body |-> StripLine(content)]>>
                      ELSE IF raw_nonblank
                           THEN <<[section |-> Labels[k], body |-> Placeholder]>>
                           ELSE <<>>
         IN  entry \o Render(secs, raw_nonblank, k + 1)

\* what format_response returns: the error message of line 135, or the
\* analysis heading followed by the rendered sections
ErrorOutput(raw) == [kind |-> "error", text |-> raw, body |-> <<>>]
AnalysisOutput(secs, raw_nonblank) ==
    [kind |-> "analysis", text |-> <<>>, body |-> Render(secs, raw_nonblank, 1)]

format_response(raw) ==
    IF HasErrorPrefix(raw) THEN ErrorOutput(raw)
    ELSE AnalysisOutput(ScanLines(ScanInit, raw).sections, ~RawIsBlank(raw))

----------------------------------------------------------------------------
(* The inference service (app.py 10-15, 54-66, 100-129) *)

\* MODEL_NAME (line 15); a model name is a line of tokens, as a reply's lines
MODEL_NAME == "paper-analyzer"

\* what requests.get / requests.post can do: raise, or return a response with
\* a status code, a body that is JSON or not, and the JSON's fields
NoException == "none"
Response(status, text, json_ok, models, has_response, response) ==
    [exc |-> NoException, status |-> status, text |-> text, json_ok |-> json_ok,
     models |-> models, has_response |-> has_response, response |-> response]
Raises(exc) ==
    [exc |-> exc, status |-> "", text |-> <<>>, json_ok |-> FALSE, models |-> <<>>,
     has_response |-> FALSE, response |-> <<>>]

\* requests.exceptions: ConnectTimeout is a ConnectionError and a Timeout
IsTimeout(exc) == exc \in {"ReadTimeout", "ConnectTimeout"}
IsConnectionError(exc) == exc \in {"ConnectionError", "ConnectTimeout"}

\* response.text of the bodies the model distinguishes
ServerErrorText == << <<"Internal Server Error">>, <<"x">> >>
NotJsonText == << <<"<html>">> >>
JsonText == << <<"{...}">> >>

\* answers of GET /api/tags
GetOutcomes ==
    { Raises("ReadTimeout"), Raises("ConnectionError"),
      Response("500", ServerErrorText, FALSE, <<>>, FALSE, <<>>),
      Response("200", NotJsonText, FALSE, <<>>, FALSE, <<>>),
      Response("200", JsonText, TRUE, << <<"tinyllama">> >>, FALSE, <<>>),
      Response("200", JsonText, TRUE,
               << <<"tinyllama">>, <<MODEL_NAME, ":latest">> >>, FALSE, <<>>) }

\* replies of the model: the five sections with their text on the header
\* lines (the layout the prompt of lines 32-37 asks for), the five sections
\* with their text on the following lines, and plain text
ReplyInline ==
    << <<"1.", "KEY CONCEPT", "x">>, <<"2.", "MATHEMATICAL FORMULATION", "x">>,
       <<"3.", "MATHEMATICAL INTUITION", "x">>, <<"4.", "PRACTICAL IMPLICATIONS", "x">>,
       <<"5.", "SUMMARY", "x">> >>
ReplyBlocks ==
    << <<"KEY CONCEPT">>, <<"x">>, <<"MATHEMATICAL FORMULATION">>, <<"x">>,
       <<"MATHEMATICAL INTUITION">>, <<"x">>, <<"PRACTICAL IMPLICATIONS">>, <<"x">>,
       <<"SUMMARY">>, <<"x">> >>
ReplyPlain == << <<"x", "x">>, <<>>, <<"x">> >>
ModelReplies == {ReplyInline, ReplyBlocks, ReplyPlain}

\* answers of POST /api/generate
PostOutcomes ==
    { Raises("ReadTimeout"), Raises("ConnectTimeout"), Raises("ConnectionError"),
      Raises("OtherException"),
      Response("500", ServerErrorText, FALSE, <<>>, FALSE, <<>>),
      Response("200", NotJsonText, FALSE, <<>>, FALSE, <<>>),
      Response("200", JsonText, TRUE, <<>>, FALSE, <<>>) }
    \cup {Response("200", JsonText, TRUE, <<>>, TRUE, r) : r \in ModelReplies}

\* check_model_ready (lines 54-66) given the answer of the GET: response.json()
\* raises on a body that is not JSON, and the bare except returns False
check_model_ready(get) ==
    IF get.exc # NoException THEN FALSE
    ELSE IF get.status = "200"
         THEN IF ~get.json_ok THEN FALSE
              ELSE \E k \in 1..Len(get.models) : Contains(get.models[k], MODEL_NAME)
    ELSE FALSE

\* the literal error strings of query_ollama
NotReadyError ==
    << <<"Error:", "AI model is not ready yet. Please wait a moment and try again.">> >>
TimeoutError ==
    << <<"Error:", "Request timeout - the AI service is taking too long to respond.">> >>
ConnectError ==
    << <<"Error:", "Cannot connect to AI service at", "OLLAMA_BASE_URL",
         "Please check if the backend is running.">> >>
OtherError(exc) == << <<"Error:", exc>> >>
ApiError(status, text) ==
    IF text = <<>> THEN << <<"API Error:", status, "-">> >>
    ELSE << <<"API Error:", status, "-">> \o Head(text) >> \o Tail(text)
NoResponseText == << <<"No response from model.">> >>

\* the except clauses without the catch-all of lines 128-129
HandleExceptionNoCatchAll(exc) ==
    IF IsTimeout(exc) THEN [raised |-> FALSE, result |-> TimeoutError]
    ELSE IF IsConnectionError(exc) THEN [raised |-> FALSE, result |-> ConnectError]
    ELSE [raised |-> TRUE, result |-> <<>>]

\* the except clauses of lines 124-129, tried in order
HandleException(exc) ==
    IF IsTimeout(exc) THEN [raised |-> FALSE, result |-> TimeoutError]
    ELSE IF IsConnectionError(exc) THEN [raised |-> FALSE, result |-> ConnectError]
    ELSE [raised |-> FALSE, result |-> OtherError(exc)]

\* lines 107-122 once the readiness check passed: the POST and its answer
Generate(post) ==
    IF post.exc # NoException THEN HandleException(post.exc)
    ELSE IF post.status = "200"
         THEN IF ~post.json_ok THEN HandleException("JSONDecodeError")
              ELSE [raised |-> FALSE,
                    result |-> IF post.has_response THEN post.response
                               ELSE NoResponseText]
    ELSE [raised |-> FALSE, result |-> ApiError(post.status, post.text)]

\* a query_ollama that posts without the readiness check of lines 104-105
query_ollama_unchecked(prompt, get, post) ==
    [called |-> TRUE, prompt |-> prompt, get |-> get, post |-> post, ready |-> check_model_ready(get),
     requests |-> <<"GET", "POST">>,
     raised |-> Generate(post).raised, result |-> Generate(post).result]

\* query_ollama (lines 100-129) given the answers the service gives to its
\* GET and, if it is sent, its POST; `requests` lists the requests sent
query_ollama(prompt, get, post) ==
    IF ~check_model_ready(get)
    THEN [called |-> TRUE, prompt |-> prompt, get |-> get, post |-> post,
          ready |-> FALSE,
          requests |-> <<"GET">>, raised |-> FALSE, result |-> NotReadyError]
    ELSE [called |-> TRUE, prompt |-> prompt, get |-> get, post |-> post,
          ready |-> TRUE,
          requests |-> <<"GET", "POST">>,
          raised |-> Generate(post).raised, result |-> Generate(post).result]

\* no query_ollama call in this script run
NoPrompt == [template |-> "", context |-> <<>>, question |-> <<>>]
NoQuery ==
    [called |-> FALSE, prompt |-> NoPrompt, get |-> Raises(NoException), post |-> Raises(NoException),
     ready |-> FALSE, requests |-> <<>>, raised |-> FALSE, result |-> <<>>]

----------------------------------------------------------------------------
(* PDF extraction and the Process Paper button (app.py 68-80, 247-263) *)

\* the threshold of line 252
MinTextLen == 100
\* split_text's defaults (line 82), used by the call of line 253
DefaultChunkSize == 800
DefaultOverlap == 100

\* what page.extract_text() gives: it raises, or returns text (None and ""
\* are both the empty text)
Page(text) == [raises |-> FALSE, text |-> text]
PageRaises == [raises |-> TRUE, text |-> <<>>]
\* page texts: none, 101 blanks, 100 characters in ten words, 101 characters
\* in ten words
NineAndBlank == Rep(<<"a">>, 9) \o <<" ">>
PageOutcomes ==
    { Page(<<>>),
      Page(Rep(<<" ">>, 101)),
      Page(Rep(NineAndBlank, 9) \o Rep(<<"b">>, 10)),
      Page(Rep(NineAndBlank, 9) \o Rep(<<"b">>, 11)),
      PageRaises }

\* the uploader's value: None, or a file PdfReader can open or not, with pages
NoFile == [file |-> FALSE, opens |-> FALSE, pages |-> <<>>]
Pdf(opens, pages) == [file |-> TRUE, opens |-> opens, pages |-> pages]
Uploads ==
    {NoFile, Pdf(FALSE, <<>>)}
    \cup UNION {{Pdf(TRUE, ps) : ps \in [1..n -> PageOutcomes]} : n \in 0..MaxPages}

\* the loop of lines 73-76 from the k-th page on: the text, or the exception
RECURSIVE ExtractPages(_, _, _)
ExtractPages(pages, k, text) ==
    IF k > Len(pages) THEN [raised |-> FALSE, text |-> text]
    ELSE IF pages[k].raises THEN [raised |-> TRUE, text |-> <<>>]
    ELSE IF pages[k].text # <<>>
         THEN ExtractPages(pages, k + 1, text \o pages[k].text \o <<"\n">>)
    ELSE ExtractPages(pages, k + 1, text)

\* an extraction that returns the text without strip()
extract_text_unstripped(uploaded_file) ==
    IF ~uploaded_file.opens \/ ExtractPages(uploaded_file.pages, 1, <<>>).raised
    THEN [text |-> <<>>, shown |-> <<"error: Error reading PDF">>]
    ELSE [text |-> ExtractPages(uploaded_file.pages, 1, <<>>).text, shown |-> <<>>]

\* extract_text_from_pdf (lines 68-80): the text returned and the message shown
extract_text_from_pdf(uploaded_file) ==
    IF ~uploaded_file.opens \/ ExtractPages(uploaded_file.pages, 1, <<>>).raised
    THEN [text |-> <<>>, shown |-> <<"error: Error reading PDF">>]
    ELSE [text |-> Strip(ExtractPages(uploaded_file.pages, 1, <<>>).text),
          shown |-> <<>>]

\* a Process Paper handler that stores the chunks before testing the text
process_paper_store_first(cur_chunks, cur_processed, uploaded_file) ==
    IF uploaded_file.file
    THEN LET ex == extract_text_from_pdf(uploaded_file)
             new == split_text(ex.text, DefaultChunkSize, DefaultOverlap)
         IN  IF ex.text # <<>> /\ Len(ex.text) > MinTextLen
             THEN [chunks |-> new, processed |-> TRUE,
                   shown |-> ex.shown \o <<"success: Processed", "preview">>]
             ELSE [chunks |-> new, processed |-> cur_processed,
                   shown |-> ex.shown \o <<"error: Could not extract sufficient text">>]
    ELSE [chunks |-> cur_chunks, processed |-> cur_processed,
          shown |-> <<"warning: Please upload a PDF file first">>]

\* the Process Paper handler (lines 247-263): the session values it leaves and
\* the messages it shows; the preview of line 259 reads chunks[0]
process_paper(cur_chunks, cur_processed, uploaded_file) ==
    IF uploaded_file.file
    THEN LET ex == extract_text_from_pdf(uploaded_file)
         IN  IF ex.text # <<>> /\ Len(ex.text) > MinTextLen
             THEN [chunks |-> split_text(ex.text, DefaultChunkSize, DefaultOverlap),
                   processed |-> TRUE,
                   shown |-> ex.shown \o <<"success: Processed", "preview">>]
             ELSE [chunks |-> cur_chunks, processed |-> cur_processed,
                   shown |-> ex.shown \o <<"error: Could not extract sufficient text">>]
    ELSE [chunks |-> cur_chunks, processed |-> cur_processed,
          shown |-> <<"warning: Please upload a PDF file first">>]

----------------------------------------------------------------------------
(* Spec: the session.  Streamlit runs the whole script once per widget      *)
(* event, so an action is one run of main(): the readiness check of lines   *)
(* 226-232, the sidebar (247-263), then the tabs or the welcome screen      *)
(* (266-352).                                                               *)

\* a run without a readiness request
NoGet == Raises(NoException)

IdleSession ==
    /\ chunks = <<>> /\ processed = FALSE /\ model_ready = FALSE
    /\ action = "none" /\ upload = NoFile /\ messages = <<>>
    /\ query = NoQuery /\ formatted = <<>>

\* lines 226-232: the readiness check made while model_ready is False
HeaderGets == IF model_ready THEN {NoGet} ELSE GetOutcomes
HeaderReady(get0) == model_ready \/ check_model_ready(get0)
HeaderShown(get0) ==
    IF model_ready THEN <<>>
    ELSE IF check_model_ready(get0) THEN <<"success: AI model is ready">>
    ELSE <<"warning: AI model is still loading">>

\* line 266: the tabs are shown, else the welcome screen
TabsShown(cur_chunks, cur_processed) == cur_processed /\ cur_chunks # <<>>
MainShown(cur_chunks, cur_processed) ==
    IF TabsShown(cur_chunks, cur_processed) THEN <<"success: Ready", "tabs">>
    ELSE <<"welcome">>

\* the context of a prompt: "\n\n".join(chunks[:k]) (lines 289, 305, 318)
RECURSIVE JoinParagraphs(_)
JoinParagraphs(cs) ==
    IF cs = <<>> THEN <<>>
    ELSE IF Len(cs) = 1 THEN cs[1]
    ELSE cs[1] \o <<"\n", "\n">> \o JoinParagraphs(Tail(cs))
Context(k) == JoinParagraphs(Slice(chunks, 0, k))
\* TEMPLATE.format(context=..., question=...) (lines 290, 306, 319)
Prompt(template, k, question) ==
    [template |-> template, context |-> Context(k), question |-> question]

IdleSplit ==
    /\ sp_pc = "idle" /\ sp_text = <<>> /\ sp_chunk_size = 1 /\ sp_overlap = 0
    /\ sp_result = <<>>
IdleFormat ==
    /\ fr_pc = "idle" /\ fr_error = FALSE /\ fr_blank = TRUE /\ fr_present = {}
    /\ fr_numbered = FALSE /\ fr_nlines = 0
    /\ current_section = None /\ sections = ScanInit.sections /\ fr_out = <<>>

Init == IdleSession /\ IdleSplit /\ IdleFormat

\* the answers the service gives during a query_ollama call: the POST is
\* answered only if it is sent
NoPost == Raises(NoException)
PostsAfter(get) == IF check_model_ready(get) THEN PostOutcomes ELSE {NoPost}

\* a run with no button pressed: the page is loaded or a file is chosen
Rerun ==
    \E get0 \in HeaderGets :
        /\ model_ready' = HeaderReady(get0)
        /\ action' = "rerun"
        /\ messages' = HeaderShown(get0) \o MainShown(chunks, processed)
        /\ query' = NoQuery
        /\ formatted' = <<>>
        /\ upload' = NoFile
        /\ UNCHANGED <<chunks, processed, splitVars, formatVars>>

\* a run with the Process Paper button pressed (lines 247-263)
ProcessRun(get0, file) ==
    LET r == process_paper(chunks, processed, file)
    IN  /\ model_ready' = HeaderReady(get0)
        /\ action' = "process"
        /\ upload' = file
        /\ chunks' = r.chunks
        /\ processed' = r.processed
        /\ messages' = HeaderShown(get0) \o r.shown \o MainShown(r.chunks, r.processed)
        /\ query' = NoQuery
        /\ formatted' = <<>>
        /\ UNCHANGED <<splitVars, formatVars>>

\* `upload` is the file Process Paper was pressed with, NoFile in the runs
\* of the other widgets
ProcessPaper == \E get0 \in HeaderGets, file \in Uploads : ProcessRun(get0, file)

\* what the text area of line 277 holds when a button is pressed
Questions == {<<>>, <<" ">>, <<"w", "h", "y", "?">>}

\* the Analyze button with a blank question (lines 284, 296-297)
AnalyzeBlank ==
    \E get0 \in HeaderGets, question \in Questions :
        /\ TabsShown(chunks, processed)
        /\ Strip(question) = <<>>
        /\ model_ready' = HeaderReady(get0)
        /\ action' = "analyze"
        /\ messages' = HeaderShown(get0) \o MainShown(chunks, processed)
                           \o <<"warning: Please enter a question">>
        /\ query' = NoQuery
        /\ formatted' = <<>>
        /\ upload' = NoFile
        /\ UNCHANGED <<chunks, processed, splitVars, formatVars>>

\* an analysis button pressed while model_ready stays False (lines 285-286,
\* 302-303, 315-316)
NotReady(kind) ==
    \E get0 \in HeaderGets :
        /\ TabsShown(chunks, processed)
        /\ ~HeaderReady(get0)
        /\ model_ready' = FALSE
        /\ action' = kind
        /\ messages' = HeaderShown(get0) \o MainShown(chunks, processed)
                           \o <<"error: AI model is not ready yet">>
        /\ query' = NoQuery
        /\ formatted' = <<>>
        /\ upload' = NoFile
        /\ UNCHANGED <<chunks, processed, splitVars, formatVars>>

\* the Analyze button with a question (lines 288-295): the reply goes
\* through format_response
Analyze ==
    \E get0 \in HeaderGets, question \in Questions, get \in GetOutcomes :
      \E post \in PostsAfter(get) :
        LET q == query_ollama(Prompt("ANSWER_PROMPT", 3, question), get, post)
        IN  /\ TabsShown(chunks, processed)
            /\ Strip(question) # <<>>
            /\ HeaderReady(get0)
            /\ model_ready' = TRUE
            /\ action' = "analyze"
            /\ query' = q
            /\ formatted' = IF q.raised THEN <<>> ELSE format_response(q.result)
            /\ messages' = HeaderShown(get0) \o MainShown(chunks, processed)
                               \o (IF q.raised THEN <<"exception">> ELSE <<"answer">>)
            /\ upload' = NoFile
            /\ UNCHANGED <<chunks, processed, splitVars, formatVars>>

\* the Generate Summary (lines 301-310) and Generate Quiz (314-323) buttons:
\* the reply is shown under a heading, without format_response
GenerateText(kind, template, k) ==
    \E get0 \in HeaderGets, get \in GetOutcomes :
      \E post \in PostsAfter(get) :
        LET q == query_ollama(Prompt(template, k, <<>>), get, post)
        IN  /\ TabsShown(chunks, processed)
            /\ HeaderReady(get0)
            /\ model_ready' = TRUE
            /\ action' = kind
            /\ query' = q
            /\ formatted' = IF q.raised THEN <<>>
                             ELSE [kind |-> kind, text |-> q.result, body |-> <<>>]
            /\ messages' = HeaderShown(get0) \o MainShown(chunks, processed)
                               \o (IF q.raised THEN <<"exception">> ELSE <<kind>>)
            /\ upload' = NoFile
            /\ UNCHANGED <<chunks, processed, splitVars, formatVars>>

GenerateSummary == GenerateText("summary", "SUMMARY_PROMPT", 5)
GenerateQuiz == GenerateText("quiz", "QUIZ_PROMPT", 4)
AnalyzeNotReady == NotReady("analyze")
SummaryNotReady == NotReady("summary")
QuizNotReady == NotReady("quiz")

Next ==
    \/ Rerun
    \/ ProcessPaper
    \/ AnalyzeBlank
    \/ AnalyzeNotReady
    \/ Analyze
    \/ SummaryNotReady
    \/ GenerateSummary
    \/ QuizNotReady
    \/ GenerateQuiz
Spec == Init /\ [][Next]_vars

\* the requests of one kind sent by a query_ollama call
CountOf(requests, kind) == Cardinality({k \in 1..Len(requests) : requests[k] = kind})

\* the readiness check or the generation request of the call failed: the GET
\* did not show the model, or the POST raised, was not answered 200, or was
\* answered with a body that is not JSON
QueryFailed(q) ==
    \/ ~check_model_ready(q.get)
    \/ q.post.exc # NoException
    \/ q.post.status # "200"
    \/ ~q.post.json_ok

\* C6: query_ollama never raises; when the readiness check or the generation
\* request fails it returns a string starting with "Error:" or "API Error:",
\* and format_response turns that string into the single error message.
C6_FailuresSurfaceAsErrors ==
    query.called =>
        /\ ~query.raised
        /\ QueryFailed(query) =>
               /\ HasErrorPrefix(query.result)
               /\ format_response(query.result) = ErrorOutput(query.result)
               /\ action = "analyze" => formatted = ErrorOutput(query.result)

\* an Analyze run whose POST was answered 500 showed the error message
C6_Witness ==
    /\ action = "analyze" /\ query.called /\ query.post.status = "500"
    /\ formatted.kind = "error"
    /\ StartsWith(formatted.text[1], "API Error:")

\* the uploads with which Process Paper fails: no file, a PDF whose reading
\* raises, or extracted text that is empty or at most 100 characters long
ExtractionRaises(file) ==
    ~file.opens \/ \E k \in 1..Len(file.pages) : file.pages[k].raises
FailingUpload(file) ==
    \/ ~file.file
    \/ ExtractionRaises(file)
    \/ Len(extract_text_from_pdf(file).text) <= MinTextLen
FailureShown(shown) ==
    \E k \in 1..Len(shown) :
        shown[k] \in {"warning: Please upload a PDF file first",
                      "error: Could not extract sufficient text"}

\* C7: a Process Paper run that fails shows a message and leaves chunks and
\* processed as they were.
C7_FailedProcessKeepsState ==
    [][(action' = "process" /\ FailingUpload(upload')) =>
           /\ chunks' = chunks
           /\ processed' = processed
           /\ FailureShown(messages')]_vars

\* Process Paper failed on an unreadable PDF while a processed document was
\* held, and the tabs are still shown
C7_Witness ==
    /\ action = "process" /\ upload.file /\ ExtractionRaises(upload)
    /\ processed /\ chunks # <<>>
    /\ FailureShown(messages)
    /\ \E k \in 1..Len(messages) : messages[k] = "tabs"

\* C9 as stated: every query_ollama call sends exactly one request to the
\* generation endpoint.
C9_ExactlyOnePost == query.called => CountOf(query.requests, "POST") = 1

\* C9 amended: a query_ollama call sends one readiness GET and then at most
\* one request to the generation endpoint: exactly one when the readiness
\* check passes, none when it fails; nothing is sent after a failed attempt.
C9_AtMostOnePost ==
    query.called =>
        query.requests = IF check_model_ready(query.get) THEN <<"GET", "POST">>
                         ELSE <<"GET">>

\* a call whose POST timed out: one POST was sent and the error came back
C9_Witness ==
    /\ query.called /\ query.post.exc = "ReadTimeout"
    /\ CountOf(query.requests, "POST") = 1
    /\ query.result = TimeoutError

\* C10: processed = True implies that chunks is not empty, so chunks[0]
\* exists whenever the tabs or the preview read it.
C10_ProcessedHasChunks == processed => (chunks # <<>> /\ chunks[1] # <<>>)

\* a failed Process Paper run after a successful one
C10_Witness ==
    /\ processed /\ action = "process" /\ FailingUpload(upload) /\ Len(chunks) >= 1

----------------------------------------------------------------------------
(* SpecSplit: split_text on every text of at most MaxLen characters, every *)
(* window size up to MaxWindow and every overlap below the window size     *)

Alphabet == {"a", "b", " "}
Texts == UNION {[1..n -> Alphabet] : n \in 0..MaxLen}

InitSplit ==
    /\ IdleSession /\ IdleFormat
    /\ sp_pc = "call"
    /\ sp_text \in Texts
    /\ sp_chunk_size \in 1..MaxWindow
    /\ sp_overlap \in 0..(sp_chunk_size - 1)
    /\ sp_result = <<>>

\* the call split_text(text, chunk_size, overlap) returns
CallSplitText ==
    /\ sp_pc = "call"
    /\ sp_result' = split_text(sp_text, sp_chunk_size, sp_overlap)
    /\ sp_pc' = "done"
    /\ UNCHANGED <<sp_text, sp_chunk_size, sp_overlap, sessionVars, formatVars>>

NextSplit == CallSplitText
SpecSplit == InitSplit /\ [][NextSplit]_vars

\* ceil(a / b) for b > 0 and any integer a
CeilDiv(a, b) == IF a >= 0 THEN (a + b - 1) \div b ELSE -((-a) \div b)

\* the words of the input and of the k-th chunk returned
SpWords == Split(sp_text)
SpChunkWords(k) == Split(sp_result[k])
SpStep == sp_chunk_size - sp_overlap
SpDone == sp_pc = "done"

\* seq without its first n elements
Drop(seq, n) == SubSeq(seq, n + 1, Len(seq))

\* the first chunk's words, then each later chunk's words after its first
\* `overlap` words
RECURSIVE CoverFrom(_)
CoverFrom(k) ==
    IF k > Len(sp_result) THEN <<>>
    ELSE (IF k = 1 THEN SpChunkWords(1) ELSE Drop(SpChunkWords(k), sp_overlap))
         \o CoverFrom(k + 1)

\* C1 as stated: a text of n > 0 words gives exactly ceil((n - o) / (w - o))
\* chunks.
C1_CountAsStated ==
    (SpDone /\ Len(SpWords) > 0) =>
        Len(sp_result) = CeilDiv(Len(SpWords) - sp_overlap, SpStep)

\* C1 amended: a text of n > 0 words gives exactly ceil(n / (w - o)) chunks,
\* one per window start 0, w-o, 2(w-o), ... below n.
C1_Count ==
    (SpDone /\ Len(SpWords) > 0) => Len(sp_result) = CeilDiv(Len(SpWords), SpStep)

\* a call where the two counts differ: four words, window 3, overlap 2 give
\* four chunks, the last two inside the overlap of the second
C1_Witness ==
    /\ SpDone /\ Len(SpWords) = 4 /\ sp_chunk_size = 3 /\ sp_overlap = 2
    /\ Len(sp_result) = 4
    /\ CeilDiv(Len(SpWords) - sp_overlap, SpStep) = 2

\* C2: the first chunk's words followed by every later chunk's words after
\* its first o words are the input's words, each once and in order.
C2_Cover == SpDone => CoverFrom(1) = SpWords

\* three overlapping chunks over four words, the last one cut short
C2_Witness ==
    /\ SpDone /\ sp_overlap = 1 /\ sp_chunk_size = 2 /\ Len(sp_result) >= 3
    /\ \E i, j \in 1..Len(SpWords) : SpWords[i] # SpWords[j]

\* C3 as stated: every chunk has exactly w words and the last o words of a
\* chunk are the first o words of the next.
C3_ExactAsStated ==
    SpDone =>
        /\ \A k \in 1..Len(sp_result) : Len(SpChunkWords(k)) = sp_chunk_size
        /\ \A k \in 1..(Len(sp_result) - 1) :
               /\ Len(SpChunkWords(k)) >= sp_overlap
               /\ Len(SpChunkWords(k + 1)) >= sp_overlap
               /\ Drop(SpChunkWords(k), Len(SpChunkWords(k)) - sp_overlap)
                      = SubSeq(SpChunkWords(k + 1), 1, sp_overlap)

\* C3 amended: the k-th chunk is the window of at most w words that starts at
\* word (k-1)(w-o): it has min(w, n - (k-1)(w-o)) >= 1 words, exactly w when
\* the window fits in the input, and its first min(o, length) words are the
\* words of the previous chunk from position w-o on.
C3_Windows ==
    SpDone =>
        /\ \A k \in 1..Len(sp_result) :
               /\ SpChunkWords(k) =
                      Slice(SpWords, (k - 1) * SpStep, (k - 1) * SpStep + sp_chunk_size)
               /\ Len(SpChunkWords(k)) >= 1
               /\ Len(SpChunkWords(k)) <= sp_chunk_size
               /\ (k - 1) * SpStep + sp_chunk_size <= Len(SpWords)
                      => Len(SpChunkWords(k)) = sp_chunk_size
        /\ \A k \in 1..(Len(sp_result) - 1) :
               LET m == Min(sp_overlap, Len(SpChunkWords(k + 1)))
               IN  SubSeq(SpChunkWords(k + 1), 1, m)
                       = SubSeq(SpChunkWords(k), SpStep + 1, SpStep + m)

\* a last chunk shorter than the overlap, after a chunk shorter than the window
C3_Witness ==
    /\ SpDone /\ sp_chunk_size = 3 /\ sp_overlap = 2 /\ Len(sp_result) = 4
    /\ Len(SpChunkWords(4)) = 1 /\ Len(SpChunkWords(3)) = 2

\* C8: an empty or whitespace-only text gives no chunks, whatever the window
\* size and overlap.
C8_BlankGivesNone ==
    (SpDone /\ \A i \in 1..Len(sp_text) : IsSpace(sp_text[i])) => sp_result = <<>>

\* a whitespace-only text of several characters went through split_text
C8_Witness ==
    /\ SpDone /\ Len(sp_text) >= 2 /\ \A i \in 1..Len(sp_text) : IsSpace(sp_text[i])
    /\ sp_chunk_size = 2 /\ sp_overlap = 1

----------------------------------------------------------------------------
(* SpecFormat: format_response reading a reply line by line.  The reply is *)
(* revealed one line per step: FrCall is the call (the prefix test of line *)
(* 134 on the first line, then the first loop iteration), FrScanLine one   *)
(* more iteration of the for loop, FrRender the end of the reply and the   *)
(* output loop.  A reply with an error prefix is returned at once by line  *)
(* 135; its further lines are never read.                                  *)

OrdinalSet == {Ordinals[k] : k \in 1..Len(Ordinals)}
LabelWords == LabelSet \cup {"summary", "key concept"}
FrVocab == LabelWords \cup OrdinalSet \cup {"1.5", "x", " ", "Error:"}
\* the lines a reply is made of: empty; one token; a token after or before a
\* run of blanks; a label name or an ordinal followed by a word (a header
\* with its text on the same line); a word followed by a label name; two
\* label names
FrHeads == LabelWords \cup OrdinalSet \cup {"1.5"}
FrLines ==
    {<<>>} \cup {<<t>> : t \in FrVocab}
           \cup {<<" ", t>> : t \in FrVocab} \cup {<<t, " ">> : t \in FrVocab}
           \cup {<<t, "x">> : t \in FrHeads} \cup {<<"x", t>> : t \in LabelWords}
           \cup {<<t, u>> : t \in LabelSet, u \in LabelSet}

\* the label names a line shows (in any case), and whether it starts with an
\* ordinal "1." .. "5."
LabelsIn(rawline) == {l \in LabelSet : Contains(UpperLine(StripLine(rawline)), l)}
IsNumbered(rawline) == \E k \in 1..Len(Ordinals) : StartsWith(StripLine(rawline), Ordinals[k])

InitFormat ==
    /\ IdleSession /\ IdleSplit
    /\ fr_pc = "call" /\ fr_error = FALSE /\ fr_blank = TRUE /\ fr_present = {}
    /\ fr_numbered = FALSE /\ fr_nlines = 0
    /\ current_section = None /\ sections = ScanInit.sections /\ fr_out = <<>>

FrObserve(line) ==
    /\ fr_blank' = (fr_blank /\ LineIsBlank(line))
    /\ fr_present' = fr_present \cup LabelsIn(line)
    /\ fr_numbered' = (fr_numbered \/ IsNumbered(line))
    /\ fr_nlines' = fr_nlines + 1

FrCall ==
    \E line \in FrLines :
        /\ fr_pc = "call"
        /\ fr_error' = HasErrorPrefix(<<line>>)
        /\ FrObserve(line)
        /\ IF HasErrorPrefix(<<line>>)
           THEN /\ fr_out' = ErrorOutput(<<line>>)
                /\ fr_pc' = "done"
                /\ UNCHANGED <<current_section, sections>>
           ELSE /\ current_section' = ScanLine(ScanInit, line).current_section
                /\ sections' = ScanLine(ScanInit, line).sections
                /\ fr_pc' = "scan"
                /\ UNCHANGED fr_out
        /\ UNCHANGED <<sessionVars, splitVars>>

FrScanLine ==
    \E line \in FrLines :
        /\ fr_pc = "scan" /\ fr_nlines < MaxLines
        /\ LET st == ScanLine([current_section |-> current_section,
                               sections |-> sections], line)
           IN  /\ current_section' = st.current_section
               /\ sections' = st.sections
        /\ FrObserve(line)
        /\ UNCHANGED <<fr_pc, fr_error, fr_out, sessionVars, splitVars>>

FrRender ==
    /\ fr_pc = "scan"
    /\ fr_out' = AnalysisOutput(sections, ~fr_blank)
    /\ fr_pc' = "done"
    /\ UNCHANGED <<fr_error, fr_blank, fr_present, fr_numbered, fr_nlines,
                   current_section, sections, sessionVars, splitVars>>

NextFormat == FrCall \/ FrScanLine \/ FrRender
SpecFormat == InitFormat /\ [][NextFormat]_vars

FrDone == fr_pc = "done"
\* the body rendered for a label, <<>> when the label is not rendered at all
BodiesOf(out, label) ==
    {out.body[k].body : k \in {j \in 1..Len(out.body) : out.body[j].section = label}}
ShowsContent(out, label) ==
    /\ BodiesOf(out, label) # {}
    /\ Placeholder \notin BodiesOf(out, label)
ShowsPlaceholder(out, label) == BodiesOf(out, label) = {Placeholder}

\* C4 as stated: when the reply shows all five label names, every label is
\* rendered with content, none with the placeholder.
C4_AllLabelsGiveContent ==
    (FrDone /\ fr_present = LabelSet) =>
        \A l \in LabelSet : ShowsContent(fr_out, l)

\* C5 as stated: when no line shows a label name or starts with "1." .. "5.",
\* every label is rendered with the placeholder.
C5_NoLabelsAsStated ==
    (FrDone /\ fr_present = {} /\ ~fr_numbered) =>
        \A l \in LabelSet : ShowsPlaceholder(fr_out, l)

\* C5 amended: the same for every reply that is not blank and does not start
\* with "Error:" or "API Error:".
C5_NoLabels ==
    (FrDone /\ fr_present = {} /\ ~fr_numbered /\ ~fr_blank /\ ~fr_error) =>
        /\ fr_out.kind = "analysis"
        /\ \A l \in LabelSet : ShowsPlaceholder(fr_out, l)

\* a reply of several lines of text without any label was rendered
C5_Witness ==
    /\ FrDone /\ fr_present = {} /\ ~fr_numbered /\ ~fr_blank /\ ~fr_error
    /\ fr_nlines >= 3
    /\ \A l \in LabelSet : ShowsPlaceholder(fr_out, l)

====
